---- MODULE Spec2Model ----
(***************************************************************************)
(* Model of src/playground/engine.py: the scene registry (Primitives) and  *)
(* the render orchestrator (Engine3DGRUT).                                 *)
(*                                                                         *)
(* An image is a pair of pixels <<p1, p2>>: p1 is inside the field of view *)
(* of every camera model, p2 is outside the fisheye cone (the fisheye mask *)
(* marks it invalid; the pinhole model supplies no mask).  Pixel values    *)
(* are symbolic terms (records tagged by "k"), so two buffers are equal    *)
(* exactly when the same operations were applied to the same samples.      *)
(***************************************************************************)
EXTENDS Integers, Sequences, FiniteSets, TLC

VARIABLES
    frame_id,             \* Engine3DGRUT.frame_id
    use_depth_of_field,   \* Engine3DGRUT.use_depth_of_field
    use_spp,              \* Engine3DGRUT.use_spp
    use_optix_denoiser,   \* Engine3DGRUT.use_optix_denoiser
    camera_type,          \* Engine3DGRUT.camera_type
    spp,                  \* Engine3DGRUT.spp: [spp, batch_size, spp_accumulated_for_frame]
    depth_of_field,       \* Engine3DGRUT.depth_of_field: [spp, spp_accumulated_for_frame]
    is_materials_dirty,   \* Engine3DGRUT.is_materials_dirty
    last_state,           \* Engine3DGRUT.last_state
    primitives,           \* Engine3DGRUT.primitives (class Primitives)
    tracer,               \* the Tracer's mesh acceleration structure, as last built
    render_pc,            \* position of a running render() call
    last_call,            \* the most recent operation and what it did (history)
    uploads               \* hybrid traces that carried is_sync_materials since the last invalidate

vars == <<frame_id, use_depth_of_field, use_spp, use_optix_denoiser, camera_type,
          spp, depth_of_field, is_materials_dirty, last_state, primitives, tracer,
          render_pc, last_call, uploads>>

(***************************************************************************)
(* Bounds of the model.                                                    *)
(***************************************************************************)
\* configured sample targets (SPP.spp, DepthOfField.spp) are drawn from 1..MaxTarget
MaxTarget == 1
\* configured antialiasing batch sizes (SPP.batch_size) are drawn from 1..MaxBatch
MaxBatch == 2
\* a jittered pass is issued only while the antialiasing counter is at most
\* its target plus MaxOver (the counter itself is unbounded in the code)
MaxOver == 2
\* the frame counter's signed range is scaled from 31 bits to FrameIdBits
FrameIdBits == 1

\* the view matrices a camera may have
Views == {1, 2}
\* Python's None for the cached view matrix
NoCamera == 0
\* (2 ** 31 - 1) in the source, at the scaled width
INT32_MAX == 2 ^ FrameIdBits - 1

AVAILABLE_CAMERAS == {"Pinhole", "Fisheye"}

\* OptixPrimitiveTypes
NONE == 0
MIRROR == 1
GLASS == 2
DIFFUSE == 3

(***************************************************************************)
(* Buffers.                                                                *)
(***************************************************************************)
\* Python's None for a buffer (also: the key is absent from last_state)
NoBuf == <<[k |-> "none"], [k |-> "none"]>>
Zero == [k |-> "zero"]

\* one traced sample of channel ch ("rgb" or "opacity")
Sample(ch, path, view, fx) ==
    << [k |-> "trace", ch |-> ch, path |-> path, view |-> view, fx |-> fx, px |-> 1],
       [k |-> "trace", ch |-> ch, path |-> path, view |-> view, fx |-> fx, px |-> 2] >>

\* scene_mog.trace / the result of _render_playground_hybrid: pred_rgb, pred_opacity
TraceResult(path, view, fx) ==
    [pred_rgb |-> Sample("rgb", path, view, fx),
     pred_opacity |-> Sample("opacity", path, view, fx)]

\* torch.pow(rgb, 1.0 / gamma).mean(dim=0): the color of a first pass
GammaMean(img) ==
    << [k |-> "gamma_mean", of |-> img[1]], [k |-> "gamma_mean", of |-> img[2]] >>

\* opacity.mean(dim=0): the opacity of a first pass
BatchMean(img) ==
    << [k |-> "batch_mean", of |-> img[1]], [k |-> "batch_mean", of |-> img[2]] >>

\* pred_rgb.sum(dim=0): the jittered batch of an antialiasing pass, summed
BatchSum(img) ==
    << [k |-> "batch_sum", of |-> img[1]], [k |-> "batch_sum", of |-> img[2]] >>

\* ((prev ** gamma) * n + new) / (n + batch_size)) ** (1 / gamma), per pixel
AccPixel(prev, new, n, b) == [k |-> "acc", prev |-> prev, new |-> new, n |-> n, b |-> b]

_accumulate_to_buffer(prev_frames, new_frame, num_frames_accumulated, batch_size) ==
    << AccPixel(prev_frames[1], new_frame[1], num_frames_accumulated, batch_size),
       AccPixel(prev_frames[2], new_frame[2], num_frames_accumulated, batch_size) >>

\* (opacity * i + pred_opacity) / (i + batch_size), per pixel
MeanPixel(prev, new, n, b) == [k |-> "mean", prev |-> prev, new |-> new, n |-> n, b |-> b]

AccumulateOpacity(prev, new, i, batch_size) ==
    << MeanPixel(prev[1], new[1], i, batch_size), MeanPixel(prev[2], new[2], i, batch_size) >>

\* tracer.denoise: an image filter; each output pixel may depend on the whole input
Denoise(img) ==
    << [k |-> "denoise", img |-> img, px |-> 1], [k |-> "denoise", img |-> img, px |-> 2] >>

\* rays.mask: None for the pinhole model, pixel 2 for the fisheye model
RaysMask == IF camera_type = "Fisheye" THEN {2} ELSE {}

\* buf[mask] = 0.0
\* variant: no pixel is zeroed
ApplyMask_none(buf, mask) == buf

ApplyMask(buf, mask) ==
    << IF 1 \in mask THEN Zero ELSE buf[1], IF 2 \in mask THEN Zero ELSE buf[2] >>

(***************************************************************************)
(* Accumulation controllers (playground.utils.spp.SPP and                  *)
(* playground.utils.depth_of_field.DepthOfField).                          *)
(***************************************************************************)
\* reset_accumulation(): the progress counter restarts at zero
ResetAccumulation == 0
\* has_more_to_accumulate(): the controller has remaining budget
HasMoreToAccumulate(ctl) == ctl.spp_accumulated_for_frame <= ctl.spp
\* one call of the controller draws one jitter / lens offset and counts it
ControllerCall(ctl, times) ==
    [ctl EXCEPT !.spp_accumulated_for_frame = @ + times]

(***************************************************************************)
(* Scene registry: class Primitives.                                       *)
(*                                                                         *)
(* primitives.objects is the dict name -> OptixPrimitive in insertion      *)
(* order, a sequence of records; a name is <<geometry type, index>>.       *)
(* stacked_fields lists the primitives merged by the last recompute.       *)
(***************************************************************************)
\* stacked_fields = None, and a tracer no mesh was built into yet
NoStack == << [name |-> <<"None", 0>>] >>
\* the one degenerate triangle built when nothing is visible
Placeholder == << [name |-> <<"Placeholder", 0>>] >>

\* Primitives.DEFAULT_REFRACTIVE_INDEX = 1.33, and a value a viewer sets
DEFAULT_REFRACTIVE_INDEX == "1.33"
EditedRefractiveIndex == "1.5"

\* An OptixPrimitive stored under a display name.  id is the identity of the
\* Python object and transform.id that of its ObjectTransform: two entries
\* with equal identities are one object reached under two names.
OptixPrimitive(name, geometry_type, primitive_type) ==
    [name |-> name, geometry_type |-> geometry_type, primitive_type |-> primitive_type,
     refractive_index |-> DEFAULT_REFRACTIVE_INDEX,
     transform |-> [id |-> name, value |-> "identity"],
     id |-> name]

\* variant: copy.copy(prim), a new object that shares the transform
copy_shallow(prim, name) ==
    [prim EXCEPT !.name = name, !.id = name]

\* copy.deepcopy(prim), stored under name: a new object with a new transform
deepcopy(prim, name) ==
    [prim EXCEPT !.name = name, !.id = name, !.transform.id = name]

\* variant: every primitive counts as visible
IsVisible_any(p) == TRUE

IsVisible(p) == p.primitive_type # NONE

has_visible_objects(objects) ==
    Len(SelectSeq(objects, IsVisible)) > 0

\* OptixPrimitive.stack over the visible primitives, types re-derived per face
recompute_stacked_buffers(objects) ==
    SelectSeq(objects, IsVisible)

\* Tracer.build_mesh_acc(mesh_vertices, mesh_faces, rebuild, allow_update)
build_mesh_acc(mesh, rebuild) ==
    [mesh |-> mesh, rebuild |-> rebuild]

\* variant: the dirty flag is left as it was
rebuild_bvh_if_needed_keeps_dirty(P, tr, force, rebuild) ==
    IF P.dirty \/ force
    THEN IF has_visible_objects(P.objects)
         THEN LET stacked == recompute_stacked_buffers(P.objects)
              IN  [primitives |-> [P EXCEPT !.stacked_fields = stacked],
                   tracer |-> build_mesh_acc(stacked, rebuild),
                   builds |-> 1]
         ELSE [primitives |-> P,
               tracer |-> build_mesh_acc(Placeholder, TRUE),
               builds |-> 1]
    ELSE [primitives |-> P, tracer |-> tr, builds |-> 0]

\* variant: the placeholder is built with the caller's rebuild flag
rebuild_bvh_if_needed_caller_flag(P, tr, force, rebuild) ==
    IF P.dirty \/ force
    THEN IF has_visible_objects(P.objects)
         THEN LET stacked == recompute_stacked_buffers(P.objects)
              IN  [primitives |-> [P EXCEPT !.stacked_fields = stacked, !.dirty = FALSE],
                   tracer |-> build_mesh_acc(stacked, rebuild),
                   builds |-> 1]
         ELSE [primitives |-> [P EXCEPT !.dirty = FALSE],
               tracer |-> build_mesh_acc(Placeholder, rebuild),
               builds |-> 1]
    ELSE [primitives |-> [P EXCEPT !.dirty = FALSE], tracer |-> tr, builds |-> 0]

\* Primitives.rebuild_bvh_if_needed: the registry and the tracer after the
\* call, and the number of build_mesh_acc calls it made
rebuild_bvh_if_needed(P, tr, force, rebuild) ==
    IF P.dirty \/ force
    THEN IF has_visible_objects(P.objects)
         THEN LET stacked == recompute_stacked_buffers(P.objects)
              IN  [primitives |-> [P EXCEPT !.stacked_fields = stacked, !.dirty = FALSE],
                   tracer |-> build_mesh_acc(stacked, rebuild),
                   builds |-> 1]
         ELSE [primitives |-> [P EXCEPT !.dirty = FALSE],
               tracer |-> build_mesh_acc(Placeholder, TRUE),
               builds |-> 1]
    ELSE [primitives |-> [P EXCEPT !.dirty = FALSE], tracer |-> tr, builds |-> 0]

\* bound: materials in the list of one register_materials call
MaxMaterialList == 2

\* names of the materials a mesh file may carry, and of the models owning them
MaterialNames == {"material_0", "material_1"}
ModelNames == {"Sphere", "Cube"}

\* load_materials(mesh): the 'Sphere' asset carries one material; the
\* procedural quad is created without loading any
load_materials(geometry_type) ==
    IF geometry_type = "Sphere" THEN << "material_0" >> ELSE << >>

\* registered_materials is the dict key -> PBRMaterial in insertion order, a
\* sequence of records; register_default_materials returns the two built-ins
register_default_materials ==
    << [key |-> "solid", material_id |-> 0], [key |-> "checkboard", material_id |-> 1] >>

\* f'{model_name}${mat["material_name"]}'
MaterialKey(model_name, material_name) == model_name \o "$" \o material_name

MaterialKeys(registered) == {registered[i].key : i \in 1 .. Len(registered)}

\* self.registered_materials[material_name].material_id
MaterialId(registered, key) ==
    registered[CHOOSE i \in 1 .. Len(registered) : registered[i].key = key].material_id

\* variant: every listed material is registered anew
RECURSIVE register_materials_anew(_, _, _)
register_materials_anew(registered, materials, model_name) ==
    IF materials = << >>
    THEN [registered_materials |-> registered, mat_idx_to_mat_id |-> << >>]
    ELSE LET key == MaterialKey(model_name, Head(materials))
             added == Append(registered, [key |-> key, material_id |-> Len(registered)])
             rest == register_materials_anew(added, Tail(materials), model_name)
         IN  [rest EXCEPT !.mat_idx_to_mat_id = << Len(registered) >> \o @]

\* Primitives.register_materials: the registry after the call and the ids it
\* returns, one per listed material
RECURSIVE register_materials(_, _, _)
register_materials(registered, materials, model_name) ==
    IF materials = << >>
    THEN [registered_materials |-> registered, mat_idx_to_mat_id |-> << >>]
    ELSE LET key == MaterialKey(model_name, Head(materials))
             added == IF key \notin MaterialKeys(registered)
                      THEN Append(registered,
                                  [key |-> key, material_id |-> Len(registered)])
                      ELSE registered
             rest == register_materials(added, Tail(materials), model_name)
         IN  [rest EXCEPT !.mat_idx_to_mat_id = << MaterialId(added, key) >> \o @]

(***************************************************************************)
(* Render orchestrator: class Engine3DGRUT.                                *)
(***************************************************************************)
\* frame_id + batch_size if frame_id <= (2 ** 31 - 1) else 0
AdvanceFrameId(f, batch_size) ==
    IF f <= INT32_MAX THEN f + batch_size ELSE 0

\* variant: the flag is left as it was after the hybrid trace
KeepMaterialsFlag(flag) == flag

\* "Mark materials as uploaded": self.is_materials_dirty = False
MarkMaterialsUploaded(flag) == FALSE

\* The values a pass works on while it runs: the render buffers rb, the
\* controllers, and the engine fields a trace may write.  traces lists the
\* trace calls of the pass, in order.
PassState(rgb, opacity, spp1) ==
    [rgb |-> rgb, opacity |-> opacity, res |-> TraceResult("none", NoCamera, "none"),
     spp |-> spp1, depth_of_field |-> depth_of_field,
     frame_id |-> frame_id, is_materials_dirty |-> is_materials_dirty,
     primitives |-> primitives, tracer |-> tracer, builds |-> 0, traces |-> <<>>]

\* variant: the volumetric trace advances the frame counter too
scene_mog_trace_counting(ps, view, fx) ==
    [ps EXCEPT !.res = TraceResult("vol", view, fx),
               !.traces = Append(@, [fx |-> fx, path |-> "vol", is_sync_materials |-> FALSE]),
               !.frame_id = AdvanceFrameId(ps.frame_id, ps.spp.batch_size)]

\* self.scene_mog.trace(rays_o, rays_d)
scene_mog_trace(ps, view, fx) ==
    [ps EXCEPT !.res = TraceResult("vol", view, fx),
               !.traces = Append(@, [fx |-> fx, path |-> "vol", is_sync_materials |-> FALSE])]

_render_playground_hybrid(ps, view, fx) ==
    LET rebuilt == rebuild_bvh_if_needed(ps.primitives, ps.tracer, FALSE, TRUE)
    IN  [ps EXCEPT !.primitives = rebuilt.primitives,
                   !.tracer = rebuilt.tracer,
                   !.builds = @ + rebuilt.builds,
                   !.res = TraceResult("hyb", view, fx),
                   !.traces = Append(@, [fx |-> fx, path |-> "hyb",
                                         is_sync_materials |-> ps.is_materials_dirty,
                                         mesh_faces |-> rebuilt.primitives.stacked_fields,
                                         mesh_acc |-> rebuilt.tracer.mesh]),
                   !.is_materials_dirty = MarkMaterialsUploaded(ps.is_materials_dirty),
                   !.frame_id = AdvanceFrameId(ps.frame_id, ps.spp.batch_size)]

\* variant: only the visibility of the primitives decides
UseVolumetricOnly_visible(P) == ~has_visible_objects(P.objects)

\* not self.primitives.enabled or not self.primitives.has_visible_objects()
UseVolumetricOnly(P) == ~P.enabled \/ ~has_visible_objects(P.objects)

Trace(ps, view, fx) ==
    IF UseVolumetricOnly(ps.primitives)
    THEN scene_mog_trace(ps, view, fx)
    ELSE _render_playground_hybrid(ps, view, fx)

_render_depth_of_field_buffer(ps, view) ==
    IF use_depth_of_field /\ HasMoreToAccumulate(ps.depth_of_field)
    THEN LET i == ps.depth_of_field.spp_accumulated_for_frame
             ps1 == [ps EXCEPT !.depth_of_field = ControllerCall(@, 1)]
             ps2 == Trace(ps1, view, "dof")
         IN  [ps2 EXCEPT !.rgb = _accumulate_to_buffer(ps.rgb, ps2.res.pred_rgb, i, 1),
                         !.opacity = AccumulateOpacity(ps.opacity, ps2.res.pred_opacity, i, 1)]
    ELSE ps

_render_spp_buffer(ps, view) ==
    IF use_spp /\ HasMoreToAccumulate(ps.spp)
    THEN LET i == ps.spp.spp_accumulated_for_frame
             ps2 == Trace(ps, view, "spp")
         IN  [ps2 EXCEPT !.rgb = _accumulate_to_buffer(ps.rgb, BatchSum(ps2.res.pred_rgb),
                                                       i, ps.spp.batch_size),
                         !.opacity = AccumulateOpacity(ps.opacity, ps2.res.pred_opacity, i,
                                                       ps.spp.batch_size)]
    ELSE ps

\* variant: jitter whenever antialiasing is on, depth of field or not
is_use_spp_ignoring_dof(is_first_pass) ==
    ~is_first_pass /\ use_spp

\* is_use_spp = not is_first_pass and not self.use_depth_of_field and self.use_spp
is_use_spp(is_first_pass) ==
    ~is_first_pass /\ ~use_depth_of_field /\ use_spp

\* self.raygen(camera, use_spp): one controller call per sample of the batch
raygen(jitter) ==
    IF jitter THEN ControllerCall(spp, spp.batch_size) ELSE spp

\* variant: the first pass leaves the accumulation counters as they are
FirstPass_keep_counters(view) ==
    LET ps == Trace(PassState(NoBuf, NoBuf, raygen(FALSE)), view, "first")
    IN  [ps EXCEPT !.rgb = GammaMean(ps.res.pred_rgb),
                   !.opacity = BatchMean(ps.res.pred_opacity)]

\* the branch of render_pass taken when is_first_pass is true
FirstPass(view) ==
    LET ps == Trace(PassState(NoBuf, NoBuf, raygen(FALSE)), view, "first")
    IN  [ps EXCEPT !.rgb = GammaMean(ps.res.pred_rgb),
                   !.opacity = BatchMean(ps.res.pred_opacity),
                   !.spp.spp_accumulated_for_frame = ResetAccumulation,
                   !.depth_of_field.spp_accumulated_for_frame = ResetAccumulation]

\* variant: antialiasing is tried whenever depth of field did not accumulate
AccumulatingPass_fallthrough(view) ==
    LET ps == PassState(last_state.rgb_buffer, last_state.opacity, raygen(is_use_spp(FALSE)))
    IN  IF use_depth_of_field /\ HasMoreToAccumulate(ps.depth_of_field)
        THEN _render_depth_of_field_buffer(ps, view)
        ELSE IF use_spp THEN _render_spp_buffer(ps, view)
        ELSE ps

\* the branch of render_pass taken when is_first_pass is false
AccumulatingPass(view) ==
    LET ps == PassState(last_state.rgb_buffer, last_state.opacity, raygen(is_use_spp(FALSE)))
    IN  IF use_depth_of_field THEN _render_depth_of_field_buffer(ps, view)
        ELSE IF use_spp THEN _render_spp_buffer(ps, view)
        ELSE ps

\* variant: the displayed buffer is kept as the noisy one
Finish_keep_shown(ps) ==
    LET noisy == ps.rgb
        shown == IF use_optix_denoiser THEN Denoise(noisy) ELSE noisy
    IN  [rgb |-> ApplyMask(shown, RaysMask),
         rgb_buffer |-> ApplyMask(shown, RaysMask),
         opacity |-> ApplyMask(ps.opacity, RaysMask)]

\* lines 645-654: keep the noisy buffer, denoise for display, mask all three
Finish(ps) ==
    LET noisy == ps.rgb
        shown == IF use_optix_denoiser THEN Denoise(noisy) ELSE noisy
    IN  [rgb |-> ApplyMask(shown, RaysMask),
         rgb_buffer |-> ApplyMask(noisy, RaysMask),
         opacity |-> ApplyMask(ps.opacity, RaysMask)]

cache_last_state(view, rb) ==
    [camera |-> view, rgb |-> rb.rgb, rgb_buffer |-> rb.rgb_buffer, opacity |-> rb.opacity]

did_camera_change(view) ==
    last_state.camera # NoCamera /\ last_state.camera # view

has_cached_buffers ==
    last_state.rgb # NoBuf /\ last_state.opacity # NoBuf

\* the engine fields has_progressive_effects_to_render reads
Self ==
    [use_depth_of_field |-> use_depth_of_field, use_spp |-> use_spp,
     depth_of_field |-> depth_of_field, spp |-> spp]

\* variant: the antialiasing counter is consulted although depth of field is on
has_progressive_effects_to_render_any(self) ==
    \/ self.use_depth_of_field
       /\ self.depth_of_field.spp_accumulated_for_frame <= self.depth_of_field.spp
    \/ self.use_spp /\ self.spp.spp_accumulated_for_frame <= self.spp.spp

\* variant: strict comparisons
has_progressive_effects_to_render_strict(self) ==
    \/ self.use_depth_of_field
       /\ self.depth_of_field.spp_accumulated_for_frame < self.depth_of_field.spp
    \/ ~self.use_depth_of_field /\ self.use_spp
       /\ self.spp.spp_accumulated_for_frame < self.spp.spp

has_progressive_effects_to_render(self) ==
    LET has_dof_buffers_to_render ==
            self.use_depth_of_field
            /\ self.depth_of_field.spp_accumulated_for_frame <= self.depth_of_field.spp
        has_spp_buffers_to_render ==
            ~self.use_depth_of_field /\ self.use_spp
            /\ self.spp.spp_accumulated_for_frame <= self.spp.spp
    IN  has_dof_buffers_to_render \/ has_spp_buffers_to_render

\* variant: the camera is not compared
is_dirty_ignoring_camera(view) ==
    is_materials_dirty \/ ~has_cached_buffers

is_dirty(view) ==
    IF is_materials_dirty THEN TRUE
    ELSE IF did_camera_change(view) THEN TRUE
    ELSE IF ~has_cached_buffers THEN TRUE
    ELSE FALSE

(***************************************************************************)
(* History of the most recent operation.                                   *)
(***************************************************************************)
Call(op) ==
    [op |-> op, ok |-> TRUE, camera |-> NoCamera, is_first_pass |-> FALSE,
     jitter |-> FALSE, traces |-> <<>>, mat_in |-> FALSE, passes |-> 0, builds |-> 0,
     force |-> FALSE, rebuild |-> FALSE, geometry_type |-> "", name |-> <<>>,
     materials |-> <<>>, ret |-> <<>>]

PassCall(view, is_first_pass, ok, ps) ==
    [op |-> "render_pass", ok |-> ok, camera |-> view, is_first_pass |-> is_first_pass,
     jitter |-> is_use_spp(is_first_pass), traces |-> ps.traces,
     mat_in |-> is_materials_dirty, passes |-> 0, builds |-> ps.builds,
     force |-> FALSE, rebuild |-> FALSE, geometry_type |-> "", name |-> <<>>,
     materials |-> <<>>, ret |-> <<>>]

SyncCount(traces) ==
    Cardinality({i \in 1 .. Len(traces) : traces[i].is_sync_materials})

(***************************************************************************)
(* Initial state: the engine as Engine3DGRUT.__init__ leaves it, with one  *)
(* glass sphere built into the mesh acceleration structure, and with the   *)
(* viewer's configuration applied (camera model, denoiser, sample targets  *)
(* and batch size), which stays as configured.                             *)
(***************************************************************************)
InitObjects ==
    << OptixPrimitive(<<"Sphere", 1>>, "Sphere", GLASS) >>

Init ==
    /\ frame_id = 0
    /\ use_depth_of_field = FALSE
    /\ use_spp = TRUE
    /\ use_optix_denoiser \in BOOLEAN
    /\ camera_type \in AVAILABLE_CAMERAS
    /\ \E t \in 1 .. MaxTarget, b \in 1 .. MaxBatch :
          spp = [spp |-> t, batch_size |-> b, spp_accumulated_for_frame |-> ResetAccumulation]
    /\ \E t \in 1 .. MaxTarget :
          depth_of_field = [spp |-> t, spp_accumulated_for_frame |-> ResetAccumulation]
    /\ is_materials_dirty = FALSE
    /\ last_state = [camera |-> NoCamera, rgb |-> NoBuf, rgb_buffer |-> NoBuf, opacity |-> NoBuf]
    /\ primitives = [enabled |-> TRUE, objects |-> InitObjects,
                     instance_counter |-> [g \in {"Sphere"} |-> 1],
                     registered_materials |->
                         register_materials(register_default_materials,
                                            load_materials("Sphere"),
                                            "Sphere").registered_materials,
                     stacked_fields |-> InitObjects, dirty |-> FALSE]
    /\ tracer = build_mesh_acc(InitObjects, TRUE)
    /\ render_pc = [pc |-> "idle", camera |-> NoCamera, n |-> 0]
    /\ last_call = Call("init")
    /\ uploads = 0

(***************************************************************************)
(* Engine operations.                                                      *)
(***************************************************************************)
\* what a completed render_pass leaves behind: lines 645-657
CommitPass(view, is_first_pass, ps) ==
    /\ spp' = ps.spp
    /\ depth_of_field' = ps.depth_of_field
    /\ frame_id' = ps.frame_id
    /\ is_materials_dirty' = ps.is_materials_dirty
    /\ primitives' = ps.primitives
    /\ tracer' = ps.tracer
    /\ last_state' = cache_last_state(view, Finish(ps))
    /\ last_call' = PassCall(view, is_first_pass, TRUE, ps)
    /\ uploads' = uploads + SyncCount(ps.traces)
    /\ UNCHANGED <<use_depth_of_field, use_spp, use_optix_denoiser, camera_type>>

\* the antialiasing counter grows with every jittered pass: stop issuing them
\* MaxOver past the target
MayIssue(is_first_pass) ==
    is_use_spp(is_first_pass) => spp.spp_accumulated_for_frame <= spp.spp + MaxOver

\* variant: the lookup of the noisy buffer never fails
HasNoisyBuffer_always == TRUE

\* self.last_state['rgb_buffer'] on line 639: the key exists once a pass has
\* cached its buffers
HasNoisyBuffer == last_state.rgb_buffer # NoBuf

\* render_pass(camera, is_first_pass), called by an interactive viewer
RenderPass(view, is_first_pass) ==
    /\ render_pc.pc = "idle"
    /\ MayIssue(is_first_pass)
    /\ is_first_pass \/ HasNoisyBuffer
    /\ CommitPass(view, is_first_pass,
                  IF is_first_pass THEN FirstPass(view) ELSE AccumulatingPass(view))
    /\ UNCHANGED render_pc

\* render_pass(camera, False) before any pass completed: last_state has no
\* 'rgb_buffer' key, line 639 raises KeyError after raygen has run
RenderPassKeyError(view) ==
    /\ render_pc.pc = "idle"
    /\ MayIssue(FALSE)
    /\ ~HasNoisyBuffer
    /\ spp' = raygen(is_use_spp(FALSE))
    /\ last_call' = PassCall(view, FALSE, FALSE, PassState(NoBuf, NoBuf, spp))
    /\ UNCHANGED <<frame_id, use_depth_of_field, use_spp, use_optix_denoiser, camera_type,
                   depth_of_field, is_materials_dirty, last_state, primitives, tracer,
                   render_pc, uploads>>

\* render(camera): the first pass
RenderBegin(view) ==
    /\ render_pc.pc = "idle"
    /\ CommitPass(view, TRUE, FirstPass(view))
    /\ render_pc' = [pc |-> "loop", camera |-> view, n |-> 0]

\* render(camera): one turn of the while loop
RenderLoop ==
    /\ render_pc.pc = "loop"
    /\ has_progressive_effects_to_render(Self)
    /\ CommitPass(render_pc.camera, FALSE, AccumulatingPass(render_pc.camera))
    /\ render_pc' = [render_pc EXCEPT !.n = @ + 1]

\* render(camera): the loop condition is false, return renderbuffers
RenderReturn ==
    /\ render_pc.pc = "loop"
    /\ ~has_progressive_effects_to_render(Self)
    /\ render_pc' = [pc |-> "idle", camera |-> NoCamera, n |-> 0]
    /\ last_call' = [Call("render") EXCEPT !.camera = render_pc.camera,
                                           !.passes = render_pc.n]
    /\ UNCHANGED <<frame_id, use_depth_of_field, use_spp, use_optix_denoiser, camera_type,
                   spp, depth_of_field, is_materials_dirty, last_state, primitives, tracer,
                   uploads>>

invalidate_materials_on_gpu ==
    /\ render_pc.pc = "idle"
    /\ is_materials_dirty' = TRUE
    /\ uploads' = 0
    /\ last_call' = Call("invalidate_materials_on_gpu")
    /\ UNCHANGED <<frame_id, use_depth_of_field, use_spp, use_optix_denoiser, camera_type,
                   spp, depth_of_field, last_state, primitives, tracer, render_pc>>

\* the viewer writes one of the outward facing settings
SetUseDepthOfField ==
    /\ render_pc.pc = "idle"
    /\ use_depth_of_field' = ~use_depth_of_field
    /\ last_call' = Call("set")
    /\ UNCHANGED <<frame_id, use_spp, use_optix_denoiser, camera_type, spp, depth_of_field,
                   is_materials_dirty, last_state, primitives, tracer, render_pc, uploads>>

SetUseSpp ==
    /\ render_pc.pc = "idle"
    /\ use_spp' = ~use_spp
    /\ last_call' = Call("set")
    /\ UNCHANGED <<frame_id, use_depth_of_field, use_optix_denoiser, camera_type, spp,
                   depth_of_field, is_materials_dirty, last_state, primitives, tracer,
                   render_pc, uploads>>

SetPrimitivesEnabled ==
    /\ render_pc.pc = "idle"
    /\ primitives' = [primitives EXCEPT !.enabled = ~@]
    /\ last_call' = Call("set")
    /\ UNCHANGED <<frame_id, use_depth_of_field, use_spp, use_optix_denoiser, camera_type,
                   spp, depth_of_field, is_materials_dirty, last_state, tracer, render_pc,
                   uploads>>

(***************************************************************************)
(* Registry operations.                                                    *)
(***************************************************************************)
\* bounds: primitives in the object mapping, and instances counted per
\* geometry type
MaxObjects == 2
MaxInstance == 2

\* self.assets: the meshes of the assets folder, and the procedural 'Quad'
Assets == {"Sphere", "Quad"}
\* geometry kinds a caller may pass; "Teapot" is no asset
GeometryKinds == Assets \cup {"Teapot"}
\* the types the modelled viewer adds primitives with: the invisible one and
\* a visible one (the registry tells visible types apart only when merging)
AddTypes == {NONE, MIRROR}

Names(objects) == {objects[i].name : i \in 1 .. Len(objects)}

\* variant: a mesh is produced for every geometry kind
create_geometry_any(P, geometry_type) ==
    [ok |-> TRUE, registered_materials |-> P.registered_materials]

\* Primitives.create_geometry: 'Quad' is procedural; any other kind is looked
\* up in self.assets (KeyError when absent) and its materials are registered
create_geometry(P, geometry_type) ==
    IF geometry_type = "Quad"
    THEN [ok |-> TRUE, registered_materials |-> P.registered_materials]
    ELSE IF geometry_type \in Assets
         THEN [ok |-> TRUE,
               registered_materials |->
                   IF Len(load_materials(geometry_type)) > 0
                   THEN register_materials(P.registered_materials,
                                           load_materials(geometry_type),
                                           geometry_type).registered_materials
                   ELSE P.registered_materials]
         ELSE [ok |-> FALSE, registered_materials |-> P.registered_materials]

IndexOf(objects, name) == CHOOSE i \in 1 .. Len(objects) : objects[i].name = name

\* self.objects[name] = prim
DictSet(objects, name, prim) ==
    IF name \in Names(objects)
    THEN [objects EXCEPT ![IndexOf(objects, name)] = prim]
    ELSE Append(objects, prim)

\* del self.objects[name]
DictDel(objects, name) ==
    SelectSeq(objects, LAMBDA p : p.name # name)

\* variant: a counter that exists is left as it is
BumpCounter_once(counter, geometry_type) ==
    IF geometry_type \notin DOMAIN counter
    THEN [g \in DOMAIN counter \cup {geometry_type} |->
             IF g = geometry_type THEN 1 ELSE counter[g]]
    ELSE counter

\* lines 265-268: the per-geometry counter, created at 1 or incremented
BumpCounter(counter, geometry_type) ==
    IF geometry_type \notin DOMAIN counter
    THEN [g \in DOMAIN counter \cup {geometry_type} |->
             IF g = geometry_type THEN 1 ELSE counter[g]]
    ELSE [counter EXCEPT ![geometry_type] = @ + 1]

CounterOf(counter, geometry_type) ==
    IF geometry_type \in DOMAIN counter THEN counter[geometry_type] ELSE 0

\* Primitives.add_primitive with a known geometry kind: no write to self.dirty
add_primitive(P, geometry_type, primitive_type) ==
    LET counter == BumpCounter(P.instance_counter, geometry_type)
        name == <<geometry_type, counter[geometry_type]>>
        prim == OptixPrimitive(name, geometry_type, primitive_type)
    IN  [P EXCEPT !.instance_counter = counter,
                  !.registered_materials =
                      create_geometry(P, geometry_type).registered_materials,
                  !.objects = DictSet(P.objects, name, prim)]

AddPrimitive(geometry_type, primitive_type) ==
    /\ render_pc.pc = "idle"
    /\ create_geometry(primitives, geometry_type).ok
    /\ Len(primitives.objects) < MaxObjects
    /\ CounterOf(primitives.instance_counter, geometry_type) < MaxInstance
    /\ primitives' = add_primitive(primitives, geometry_type, primitive_type)
    /\ last_call' = [Call("add_primitive") EXCEPT !.geometry_type = geometry_type]
    /\ UNCHANGED <<frame_id, use_depth_of_field, use_spp, use_optix_denoiser, camera_type,
                   spp, depth_of_field, is_materials_dirty, last_state, tracer, render_pc,
                   uploads>>

\* add_primitive with an unknown geometry kind: create_geometry raises
\* KeyError at line 360, after the counter was written at lines 265-268
AddPrimitiveKeyError(geometry_type) ==
    /\ render_pc.pc = "idle"
    /\ ~create_geometry(primitives, geometry_type).ok
    /\ CounterOf(primitives.instance_counter, geometry_type) < MaxInstance - 1
    /\ primitives' = [primitives EXCEPT
                         !.instance_counter = BumpCounter(@, geometry_type)]
    /\ last_call' = [Call("add_primitive") EXCEPT !.ok = FALSE,
                                                  !.geometry_type = geometry_type]
    /\ UNCHANGED <<frame_id, use_depth_of_field, use_spp, use_optix_denoiser, camera_type,
                   spp, depth_of_field, is_materials_dirty, last_state, tracer, render_pc,
                   uploads>>

\* Primitives.remove_primitive: del, then a forced rebuild
remove_primitive(P, tr, name) ==
    rebuild_bvh_if_needed([P EXCEPT !.objects = DictDel(@, name)], tr, TRUE, TRUE)

RemovePrimitive(name) ==
    /\ render_pc.pc = "idle"
    /\ name \in Names(primitives.objects)
    /\ primitives' = remove_primitive(primitives, tracer, name).primitives
    /\ tracer' = remove_primitive(primitives, tracer, name).tracer
    /\ last_call' = [Call("remove_primitive") EXCEPT
                        !.name = name,
                        !.builds = remove_primitive(primitives, tracer, name).builds]
    /\ UNCHANGED <<frame_id, use_depth_of_field, use_spp, use_optix_denoiser, camera_type,
                   spp, depth_of_field, is_materials_dirty, last_state, render_pc, uploads>>

\* Primitives.duplicate_primitive: deep copy under a fresh name, then a forced rebuild
duplicate_primitive(P, tr, name) ==
    LET prim == P.objects[IndexOf(P.objects, name)]
        counter == [P.instance_counter EXCEPT ![prim.geometry_type] = @ + 1]
        copy == <<prim.geometry_type, counter[prim.geometry_type]>>
    IN  rebuild_bvh_if_needed(
            [P EXCEPT !.instance_counter = counter,
                      !.objects = DictSet(P.objects, copy, deepcopy(prim, copy))],
            tr, TRUE, TRUE)

DuplicatePrimitive(name) ==
    /\ render_pc.pc = "idle"
    /\ name \in Names(primitives.objects)
    /\ Len(primitives.objects) < MaxObjects
    /\ primitives.instance_counter[name[1]] < MaxInstance
    /\ primitives' = duplicate_primitive(primitives, tracer, name).primitives
    /\ tracer' = duplicate_primitive(primitives, tracer, name).tracer
    /\ last_call' = [Call("duplicate_primitive") EXCEPT
                        !.name = name,
                        !.builds = duplicate_primitive(primitives, tracer, name).builds]
    /\ UNCHANGED <<frame_id, use_depth_of_field, use_spp, use_optix_denoiser, camera_type,
                   spp, depth_of_field, is_materials_dirty, last_state, render_pc, uploads>>

\* remove_primitive / duplicate_primitive with a name that is not in the
\* object mapping: KeyError at line 306 / 310, before anything is written
RegistryKeyError(op, name) ==
    /\ render_pc.pc = "idle"
    /\ name \notin Names(primitives.objects)
    /\ last_call' = [Call(op) EXCEPT !.ok = FALSE]
    /\ UNCHANGED <<frame_id, use_depth_of_field, use_spp, use_optix_denoiser, camera_type,
                   spp, depth_of_field, is_materials_dirty, last_state, primitives, tracer,
                   render_pc, uploads>>

\* self.objects[name].<field> = value, written by a viewer: a write to the
\* type or the refractive index reaches every entry that is the same object,
\* a write into the transform every entry that holds the same transform
EditObject(objects, name, field, value) ==
    LET target == objects[IndexOf(objects, name)]
    IN  [i \in 1 .. Len(objects) |->
            LET p == objects[i]
            IN  CASE field = "primitive_type" ->
                        IF p.id = target.id THEN [p EXCEPT !.primitive_type = value] ELSE p
                  [] field = "refractive_index" ->
                        IF p.id = target.id THEN [p EXCEPT !.refractive_index = value] ELSE p
                  [] field = "transform" ->
                        IF p.transform.id = target.transform.id
                        THEN [p EXCEPT !.transform.value = value] ELSE p]

\* the writes a viewer makes: a type, a refractive index, a moved transform
Edits ==
    {<<"primitive_type", MIRROR>>,
     <<"refractive_index", EditedRefractiveIndex>>,
     <<"transform", "moved">>}

EditPrimitive(name, edit) ==
    /\ render_pc.pc = "idle"
    /\ name \in Names(primitives.objects)
    /\ primitives' = [primitives EXCEPT !.objects = EditObject(@, name, edit[1], edit[2])]
    /\ last_call' = [Call("edit_primitive") EXCEPT !.name = name]
    /\ UNCHANGED <<frame_id, use_depth_of_field, use_spp, use_optix_denoiser, camera_type,
                   spp, depth_of_field, is_materials_dirty, last_state, tracer, render_pc,
                   uploads>>

\* register_materials(materials, model_name), called when a mesh is loaded
RegisterMaterials(materials, model_name) ==
    /\ render_pc.pc = "idle"
    /\ primitives' = [primitives EXCEPT
                         !.registered_materials =
                             register_materials(@, materials,
                                                model_name).registered_materials]
    /\ last_call' = [Call("register_materials") EXCEPT
                        !.name = model_name,
                        !.materials = materials,
                        !.ret = register_materials(primitives.registered_materials,
                                                   materials,
                                                   model_name).mat_idx_to_mat_id]
    /\ UNCHANGED <<frame_id, use_depth_of_field, use_spp, use_optix_denoiser, camera_type,
                   spp, depth_of_field, is_materials_dirty, last_state, tracer, render_pc,
                   uploads>>

\* rebuild_bvh_if_needed(force, rebuild), called by the viewer
RebuildBvhIfNeeded(force, rebuild) ==
    /\ render_pc.pc = "idle"
    /\ primitives' = rebuild_bvh_if_needed(primitives, tracer, force, rebuild).primitives
    /\ tracer' = rebuild_bvh_if_needed(primitives, tracer, force, rebuild).tracer
    /\ last_call' = [Call("rebuild_bvh_if_needed") EXCEPT
                        !.force = force,
                        !.rebuild = rebuild,
                        !.builds = rebuild_bvh_if_needed(primitives, tracer, force,
                                                         rebuild).builds]
    /\ UNCHANGED <<frame_id, use_depth_of_field, use_spp, use_optix_denoiser, camera_type,
                   spp, depth_of_field, is_materials_dirty, last_state, render_pc, uploads>>

\* an interactive viewer with a static camera, and offline render() calls
StaticView == CHOOSE view \in Views : \A other \in Views : view <= other

RenderStep == RenderLoop \/ RenderReturn

Next ==
    \/ \E is_first_pass \in BOOLEAN : RenderPass(StaticView, is_first_pass)
    \/ RenderPassKeyError(StaticView)
    \/ RenderBegin(StaticView)
    \/ RenderLoop
    \/ RenderReturn
    \/ SetUseDepthOfField
    \/ SetUseSpp

Spec == Init /\ [][Next]_vars

\* render() is a synchronous loop: once called it keeps taking its steps
LiveSpec == Spec /\ WF_vars(RenderStep)

\* materials, dirty state and frame counter: antialiasing as the only effect
MatInit ==
    /\ Init
    /\ use_optix_denoiser
    /\ camera_type = "Pinhole"

MatNext ==
    \/ \E view \in Views, is_first_pass \in BOOLEAN : RenderPass(view, is_first_pass)
    \/ \E view \in Views : RenderPassKeyError(view)
    \/ invalidate_materials_on_gpu
    \/ SetUseSpp
    \/ SetPrimitivesEnabled

MatSpec == MatInit /\ [][MatNext]_vars

\* the scene registry under a viewer that edits the scene
AllNames == {<<g, i>> : g \in Assets, i \in 1 .. MaxInstance}

RegInit ==
    /\ Init
    /\ use_optix_denoiser
    /\ camera_type = "Pinhole"
    /\ spp.batch_size = 1

RegNext ==
    \/ \E g \in GeometryKinds, t \in AddTypes : AddPrimitive(g, t)
    \/ \E g \in GeometryKinds : AddPrimitiveKeyError(g)
    \/ \E name \in AllNames : RemovePrimitive(name)
    \/ \E name \in AllNames : DuplicatePrimitive(name)
    \/ \E op \in {"remove_primitive", "duplicate_primitive"}, name \in AllNames :
          RegistryKeyError(op, name)
    \/ \E force \in BOOLEAN, rebuild \in BOOLEAN : RebuildBvhIfNeeded(force, rebuild)

RegSpec == RegInit /\ [][RegNext]_vars

\* the material lists a caller may pass: up to MaxMaterialList names
MaterialLists ==
    UNION {[1 .. n -> MaterialNames] : n \in 0 .. MaxMaterialList}

\* meshes loaded into the scene and materials registered for them
MaterialsNext ==
    \/ \E materials \in MaterialLists, model_name \in ModelNames :
          RegisterMaterials(materials, model_name)
    \/ \E g \in Assets, t \in AddTypes : AddPrimitive(g, t)

MaterialsSpec == RegInit /\ [][MaterialsNext]_vars

\* a viewer that copies primitives, edits them and removes them
CopyNext ==
    \/ \E name \in AllNames : DuplicatePrimitive(name)
    \/ \E name \in AllNames : RemovePrimitive(name)
    \/ \E name \in AllNames, edit \in Edits : EditPrimitive(name, edit)

CopySpec == RegInit /\ [][CopyNext]_vars

\* a viewer that adds, copies and removes spheres between render passes
SceneNext ==
    \/ \E t \in AddTypes : AddPrimitive("Sphere", t)
    \/ \E name \in AllNames : RemovePrimitive(name)
    \/ \E name \in AllNames : DuplicatePrimitive(name)
    \/ \E is_first_pass \in BOOLEAN : RenderPass(StaticView, is_first_pass)

SceneSpec == RegInit /\ [][SceneNext]_vars

\* the same viewer, which also switches the surface primitives off and on
PathNext ==
    \/ SceneNext
    \/ SetPrimitivesEnabled

PathSpec == RegInit /\ [][PathNext]_vars

\* the registry alone, from the state Primitives.__init__ leaves: no object,
\* nothing merged, nothing built, dirty set
PrimInit ==
    /\ frame_id = 0
    /\ use_depth_of_field = FALSE
    /\ use_spp = TRUE
    /\ use_optix_denoiser = TRUE
    /\ camera_type = "Pinhole"
    /\ spp = [spp |-> 1, batch_size |-> 1, spp_accumulated_for_frame |-> ResetAccumulation]
    /\ depth_of_field = [spp |-> 1, spp_accumulated_for_frame |-> ResetAccumulation]
    /\ is_materials_dirty = FALSE
    /\ last_state = [camera |-> NoCamera, rgb |-> NoBuf, rgb_buffer |-> NoBuf, opacity |-> NoBuf]
    /\ primitives = [enabled |-> TRUE, objects |-> <<>>,
                     instance_counter |-> [g \in {} |-> 0],
                     registered_materials |-> register_default_materials,
                     stacked_fields |-> NoStack, dirty |-> TRUE]
    /\ tracer = build_mesh_acc(NoStack, FALSE)
    /\ render_pc = [pc |-> "idle", camera |-> NoCamera, n |-> 0]
    /\ last_call = Call("init")
    /\ uploads = 0

PrimSpec == PrimInit /\ [][RegNext]_vars

(***************************************************************************)
(* Properties.                                                             *)
(***************************************************************************)
IsPass(call) == call.op = "render_pass" /\ call.ok

Buffers(ls) == <<ls.rgb, ls.rgb_buffer, ls.opacity>>

\* C1: once the termination predicate is false, a further
\* render_pass(camera, False) with the camera of the call before it returns
\* the color, noisy and opacity buffers that call returned (every completed
\* pass caches what it returns), and leaves the cached buffers as they were.
C1_ConvergedPassIdempotent ==
    [][(/\ IsPass(last_call)
        /\ ~has_progressive_effects_to_render(Self)
        /\ IsPass(last_call')
        /\ ~last_call'.is_first_pass
        /\ last_call'.camera = last_call.camera)
       => Buffers(last_state') = Buffers(last_state)]_vars

\* the counter of the effect the termination predicate consults
ConsultedCounter ==
    IF use_depth_of_field THEN depth_of_field.spp_accumulated_for_frame
    ELSE spp.spp_accumulated_for_frame

RenderEntry == render_pc.pc = "idle" /\ render_pc'.pc = "loop"
RenderTurn == render_pc.pc = "loop" /\ render_pc'.pc = "loop" /\ render_pc' # render_pc
RenderExit == render_pc.pc = "loop" /\ render_pc'.pc = "idle"

\* C2: render(camera) issues one first pass, then an accumulating pass exactly
\* while has_progressive_effects_to_render() is true; each of those passes
\* advances the counter the predicate consults, and render() returns.
C2_RenderTerminates ==
    /\ [][/\ RenderEntry => (IsPass(last_call') /\ last_call'.is_first_pass)
          /\ RenderTurn => /\ has_progressive_effects_to_render(Self)
                           /\ IsPass(last_call') /\ ~last_call'.is_first_pass
                           /\ ConsultedCounter' > ConsultedCounter
          /\ RenderExit => ~has_progressive_effects_to_render(Self)]_vars
    /\ (render_pc.pc = "loop") ~> (render_pc.pc = "idle")

\* render() returned after at least two accumulating passes
C2_Witness ==
    last_call.op = "render" /\ last_call.passes >= 2

\* C3: has_progressive_effects_to_render() is true iff (depth of field is on
\* and its counter <= its target) or (depth of field is off, antialiasing is
\* on and its counter <= its target); with depth of field on, the
\* antialiasing counter has no influence on the result.
C3_TerminationPredicate ==
    /\ has_progressive_effects_to_render(Self)
       <=> \/ use_depth_of_field
              /\ depth_of_field.spp_accumulated_for_frame <= depth_of_field.spp
           \/ ~use_depth_of_field /\ use_spp
              /\ spp.spp_accumulated_for_frame <= spp.spp
    /\ use_depth_of_field =>
          \A a \in 0 .. MaxTarget + MaxOver + MaxBatch :
              has_progressive_effects_to_render(
                  [Self EXCEPT !.spp.spp_accumulated_for_frame = a])
              = has_progressive_effects_to_render(Self)

\* both effects on, depth of field exhausted, antialiasing with budget left:
\* nothing more to render
C3_Witness ==
    /\ use_depth_of_field /\ use_spp
    /\ depth_of_field.spp_accumulated_for_frame > depth_of_field.spp
    /\ spp.spp_accumulated_for_frame <= spp.spp
    /\ IsPass(last_call)
    /\ ~has_progressive_effects_to_render(Self)

\* C4: an accumulating pass makes at most one trace; with depth of field and
\* antialiasing both on, only depth of field accumulates and the rays are
\* generated without antialiasing jitter.
C4_OneEffectPerPass ==
    (IsPass(last_call) /\ ~last_call.is_first_pass) =>
        /\ Len(last_call.traces) <= 1
        /\ (use_depth_of_field /\ use_spp) =>
              /\ ~last_call.jitter
              /\ \A i \in 1 .. Len(last_call.traces) : last_call.traces[i].fx = "dof"

\* an accumulating pass with both effects on that traced a depth-of-field sample
C4_Witness ==
    /\ IsPass(last_call) /\ ~last_call.is_first_pass
    /\ use_depth_of_field /\ use_spp
    /\ Len(last_call.traces) = 1
    /\ last_call.traces[1].fx = "dof"

\* C5: is_dirty(camera) is true iff the materials-changed flag is set, or the
\* camera's view matrix differs from the cached one, or no cached color /
\* opacity buffers exist; before any pass has completed it is true for every
\* camera.
C5_IsDirtyIff ==
    /\ \A view \in Views :
          is_dirty(view) <=> \/ is_materials_dirty
                             \/ last_state.camera # view
                             \/ last_state.rgb = NoBuf
                             \/ last_state.opacity = NoBuf
    /\ last_state.camera = NoCamera => \A view \in Views : is_dirty(view)

\* after a pass: clean for the cached camera, dirty for the other one
C5_Witness ==
    /\ IsPass(last_call)
    /\ ~is_dirty(last_call.camera)
    /\ \E view \in Views : is_dirty(view)

\* C6: right after a completed render pass with camera c (no invalidate, no
\* camera change since), is_dirty(c) is false.
C6_CleanAfterPass ==
    IsPass(last_call) => ~is_dirty(last_call.camera)

\* C7: the render pass that follows invalidate_materials_on_gpu() hands the
\* tracer the re-upload request and leaves the materials-dirty flag clear.
C7_UploadedByNextPass ==
    [][(last_call.op = "invalidate_materials_on_gpu" /\ IsPass(last_call'))
       => /\ ~is_materials_dirty'
          /\ \E i \in 1 .. Len(last_call'.traces) :
                last_call'.traces[i].is_sync_materials]_vars

\* C8: between two invalidate_materials_on_gpu() calls at most one hybrid
\* trace is invoked with the re-upload flag set.
C8_AtMostOneUpload ==
    uploads <= 1

\* a hybrid trace without re-upload, after the one that uploaded
C8_Witness ==
    /\ uploads = 1
    /\ IsPass(last_call)
    /\ \E i \in 1 .. Len(last_call.traces) :
          last_call.traces[i].path = "hyb" /\ ~last_call.traces[i].is_sync_materials

\* C9: the frame counter stays within [0, 2^31 - 1] (here: the scaled range)
\* in every reachable state.
C9_FrameIdInRange ==
    frame_id \in 0 .. INT32_MAX

\* C10: after add_primitive, remove_primitive and duplicate_primitive the
\* registry is marked dirty, so the next rebuild_bvh_if_needed(force=False)
\* invokes the acceleration-structure builder.
C10_MutationMarksDirty ==
    (last_call.op \in {"add_primitive", "remove_primitive", "duplicate_primitive"}
     /\ last_call.ok)
    => /\ primitives.dirty
       /\ rebuild_bvh_if_needed(primitives, tracer, FALSE, TRUE).builds = 1

\* the step is a call of rebuild_bvh_if_needed by the viewer
IsRebuildCall == last_call'.op = "rebuild_bvh_if_needed"

\* the primitives of the object mapping whose type is not 'none', in order
NonNone(objects) == SelectSeq(objects, LAMBDA p : p.primitive_type # NONE)

\* C11: rebuild_bvh_if_needed leaves the dirty flag clear on every exit; a
\* non-forced call made while the flag is clear invokes the builder zero
\* times and leaves the merged buffer set (and the built structure) unchanged.
C11_RebuildClearsDirty ==
    [][IsRebuildCall =>
          /\ ~primitives'.dirty
          /\ (~primitives.dirty /\ ~last_call'.force) =>
                /\ last_call'.builds = 0
                /\ primitives'.stacked_fields = primitives.stacked_fields
                /\ tracer' = tracer]_vars

\* a non-forced call over a non-empty, clean registry that built nothing
C11_Witness ==
    /\ last_call.op = "rebuild_bvh_if_needed"
    /\ ~last_call.force
    /\ last_call.builds = 0
    /\ Len(primitives.objects) > 0
    /\ ~primitives.dirty

\* C12: a call of rebuild_bvh_if_needed that builds (dirty or forced) invokes
\* the builder exactly once: with the merged arrays of the visible primitives
\* when there is one, otherwise with the one-triangle placeholder and
\* rebuild=True whatever rebuild flag the caller passed.
C12_BuildWellFormed ==
    [][(IsRebuildCall /\ (primitives.dirty \/ last_call'.force)) =>
          /\ last_call'.builds = 1
          /\ IF NonNone(primitives.objects) # <<>>
             THEN /\ primitives'.stacked_fields = NonNone(primitives.objects)
                  /\ tracer' = [mesh |-> NonNone(primitives.objects),
                                rebuild |-> last_call'.rebuild]
             ELSE tracer' = [mesh |-> Placeholder, rebuild |-> TRUE]]_vars

\* the placeholder was built although the caller passed rebuild=False
C12_Witness ==
    /\ last_call.op = "rebuild_bvh_if_needed"
    /\ last_call.builds = 1
    /\ ~last_call.rebuild
    /\ tracer = [mesh |-> Placeholder, rebuild |-> TRUE]

\* the hybrid trace calls of the pass just completed
HybridTraces ==
    {i \in 1 .. Len(last_call.traces) : last_call.traces[i].path = "hyb"}

\* C13: every hybrid trace call receives a merged buffer set that is present
\* and is the concatenation of exactly the currently visible primitives, and
\* the acceleration structure was last built from those same primitives.
C13_NoStaleGeometry ==
    IsPass(last_call) =>
        \A i \in HybridTraces :
            /\ last_call.traces[i].mesh_faces # NoStack
            /\ last_call.traces[i].mesh_faces = NonNone(primitives.objects)
            /\ last_call.traces[i].mesh_acc = NonNone(primitives.objects)

\* the step is a call of register_materials
IsRegisterCall == last_call'.op = "register_materials"

\* the namespaced key of the i-th material the call listed
ListedKey(call, i) == call.name \o "$" \o call.materials[i]

\* C14: registering a material name again under the same owning-model name
\* returns the id assigned the first time and adds no registry entry (a call
\* adds one entry per key that was new, and keeps every entry there was), and
\* no two distinct keys of the registry, built-in defaults included, hold the
\* same material id.
C14_MaterialRegistration ==
    /\ [][IsRegisterCall =>
            LET before == primitives.registered_materials
                after == primitives'.registered_materials
                call == last_call'
                listed == {ListedKey(call, i) : i \in 1 .. Len(call.materials)}
            IN  /\ Len(call.ret) = Len(call.materials)
                /\ SubSeq(after, 1, Len(before)) = before
                /\ Len(after) = Len(before)
                                + Cardinality(listed \ MaterialKeys(before))
                /\ \A i \in 1 .. Len(call.materials) :
                      /\ ListedKey(call, i) \in MaterialKeys(before) =>
                            call.ret[i] = MaterialId(before, ListedKey(call, i))
                      /\ \A j \in 1 .. Len(call.materials) :
                            call.materials[i] = call.materials[j] =>
                               call.ret[i] = call.ret[j]]_vars
    /\ [](\A i, j \in 1 .. Len(primitives.registered_materials) :
             i # j => /\ primitives.registered_materials[i].key
                         # primitives.registered_materials[j].key
                      /\ primitives.registered_materials[i].material_id
                         # primitives.registered_materials[j].material_id)

\* a call that listed one known and one new material: the known one came
\* back with its first id, the new one was added
C14_Witness ==
    /\ last_call.op = "register_materials"
    /\ Len(last_call.ret) = 2
    /\ last_call.ret[1] < last_call.ret[2]
    /\ last_call.ret[2] = Len(primitives.registered_materials) - 1
    /\ last_call.ret[1] < Len(primitives.registered_materials) - 2

\* the step is a successful add_primitive or duplicate_primitive
IsNamingCall ==
    last_call'.op \in {"add_primitive", "duplicate_primitive"} /\ last_call'.ok

\* C15: the instance index of a geometry type grows by one with every add or
\* duplicate of that type and never decreases, every name in the object
\* mapping carries an index the counter has reached, and an add or duplicate
\* appends exactly one primitive under a name beyond every index used so far,
\* overwriting none.
C15_NamesNeverReused ==
    /\ [](\A i \in 1 .. Len(primitives.objects) :
             primitives.objects[i].name[2]
             <= CounterOf(primitives.instance_counter, primitives.objects[i].name[1]))
    /\ [][/\ \A g \in GeometryKinds :
                CounterOf(primitives'.instance_counter, g)
                >= CounterOf(primitives.instance_counter, g)
          /\ IsNamingCall =>
                \E g \in GeometryKinds :
                   LET index == CounterOf(primitives.instance_counter, g) + 1
                   IN  /\ CounterOf(primitives'.instance_counter, g) = index
                       /\ <<g, index>> \notin Names(primitives.objects)
                       /\ Len(primitives'.objects) = Len(primitives.objects) + 1
                       /\ primitives'.objects[Len(primitives'.objects)].name = <<g, index>>
                       /\ \A i \in 1 .. Len(primitives.objects) :
                             primitives'.objects[i] = primitives.objects[i]
          /\ (last_call'.op = "remove_primitive" /\ last_call'.ok) =>
                primitives'.instance_counter = primitives.instance_counter]_vars

\* a primitive added or duplicated after an earlier one of its type was
\* removed: it carries the next index, not the freed one
C15_Witness ==
    /\ last_call.op \in {"add_primitive", "duplicate_primitive"}
    /\ last_call.ok
    /\ \E g \in Assets :
          /\ <<g, 2>> \in Names(primitives.objects)
          /\ <<g, 1>> \notin Names(primitives.objects)

\* C16: add_primitive called with a geometry kind that is neither the
\* procedural 'Quad' nor a registered asset aborts with an error, and the
\* object mapping holds no primitive it did not hold before.
C16_UnknownGeometryIsError ==
    [][(last_call'.op = "add_primitive" /\ last_call'.geometry_type \notin Assets) =>
          /\ ~last_call'.ok
          /\ primitives'.objects = primitives.objects]_vars

\* add_primitive('Teapot', ...) failed
C16_Witness ==
    /\ last_call.op = "add_primitive"
    /\ last_call.geometry_type = "Teapot"
    /\ ~last_call.ok

Others(objects, name) == SelectSeq(objects, LAMBDA p : p.name # name)

\* C18: after duplicate_primitive, a change of the type, the refractive index
\* or the transform of one primitive takes effect on it and leaves every
\* other primitive of the object mapping as it was, and removing one leaves
\* the others in the mapping unchanged (every primitive but the first is a
\* copy here).
C18_DeepCopy ==
    [][/\ last_call'.op = "edit_primitive" =>
             /\ Names(primitives'.objects) = Names(primitives.objects)
             /\ Others(primitives'.objects, last_call'.name)
                = Others(primitives.objects, last_call'.name)
       /\ (last_call'.op = "remove_primitive" /\ last_call'.ok) =>
             /\ Names(primitives'.objects) = Names(primitives.objects) \ {last_call'.name}
             /\ primitives'.objects = Others(primitives.objects, last_call'.name)
       /\ (last_call'.op = "duplicate_primitive" /\ last_call'.ok) =>
             LET copy == primitives'.objects[Len(primitives'.objects)]
                 source == primitives.objects[IndexOf(primitives.objects, last_call'.name)]
             IN  /\ copy.primitive_type = source.primitive_type
                 /\ copy.refractive_index = source.refractive_index
                 /\ copy.transform.value = source.transform.value
                 /\ Others(primitives'.objects, copy.name) = primitives.objects]_vars

\* a copy and its source that differ in type, refractive index and transform
\* after edits
C18_Witness ==
    /\ last_call.op = "edit_primitive"
    /\ \E i, j \in 1 .. Len(primitives.objects) :
          /\ primitives.objects[i].name = <<"Sphere", 1>>
          /\ primitives.objects[j].name = <<"Sphere", 2>>
          /\ primitives.objects[i].primitive_type # primitives.objects[j].primitive_type
          /\ primitives.objects[i].refractive_index # primitives.objects[j].refractive_index
          /\ primitives.objects[i].transform.value # primitives.objects[j].transform.value

\* C19: after a completed pass (first, accumulating or converged, denoiser on
\* or off) with a camera model that supplies a mask, every pixel the mask
\* marks invalid is exactly zero in the displayed color buffer, the cached
\* noisy buffer and the opacity buffer.
C19_MaskedPixelsZero ==
    IsPass(last_call) =>
        \A px \in RaysMask :
            /\ last_state.rgb[px] = Zero
            /\ last_state.rgb_buffer[px] = Zero
            /\ last_state.opacity[px] = Zero

\* a converged pass under the fisheye camera
C19_Witness ==
    /\ IsPass(last_call)
    /\ ~last_call.is_first_pass
    /\ last_call.traces = <<>>
    /\ RaysMask # {}

Max2(a, b) == IF a >= b THEN a ELSE b

\* how many times the denoiser was applied, one on top of the other, to
\* produce a pixel
RECURSIVE DenoiseDepth(_)
DenoiseDepth(p) ==
    CASE p.k = "denoise" ->
            1 + Max2(DenoiseDepth(p.img[1]), DenoiseDepth(p.img[2]))
      [] p.k \in {"acc", "mean"} ->
            Max2(DenoiseDepth(p.prev), DenoiseDepth(p.new))
      [] OTHER -> 0

\* C20: the cached noisy buffer, which an accumulating pass resumes from, has
\* never been through the denoiser, and the displayed color of a pass is the
\* denoiser applied once to that pass's noisy buffer (the noisy buffer itself
\* when the denoiser is off).
C20_DenoiseNotCompounded ==
    IsPass(last_call) =>
        /\ \A px \in {1, 2} : DenoiseDepth(last_state.rgb_buffer[px]) = 0
        /\ IF use_optix_denoiser
           THEN \A px \in {1, 2} \ RaysMask :
                   /\ last_state.rgb[px].k = "denoise"
                   /\ DenoiseDepth(last_state.rgb[px]) = 1
                   /\ ApplyMask(last_state.rgb[px].img, RaysMask) = last_state.rgb_buffer
           ELSE last_state.rgb = last_state.rgb_buffer

\* an accumulating pass that added a sample, displayed through the denoiser
C20_Witness ==
    /\ IsPass(last_call)
    /\ ~last_call.is_first_pass
    /\ Len(last_call.traces) = 1
    /\ use_optix_denoiser
    /\ last_state.rgb_buffer[1].k = "acc"
    /\ last_state.rgb_buffer[1].prev.k = "acc"

\* C21: a pass traces the volumetric-only path iff the surface primitives are
\* disabled or none is visible, and the hybrid path otherwise; a first pass on
\* a scene with no surface primitive caches the volumetric trace of its rays,
\* gamma-corrected and averaged, and makes neither a hybrid trace nor a build.
C21_TracePathSelection ==
    IsPass(last_call) =>
        /\ \A i \in 1 .. Len(last_call.traces) :
              last_call.traces[i].path = "vol"
              <=> (~primitives.enabled \/ NonNone(primitives.objects) = <<>>)
        /\ (last_call.is_first_pass /\ primitives.objects = <<>>) =>
              /\ Len(last_call.traces) = 1
              /\ HybridTraces = {}
              /\ last_call.builds = 0
              /\ last_state.rgb_buffer
                 = ApplyMask(GammaMean(Sample("rgb", "vol", last_call.camera, "first")),
                             RaysMask)
              /\ last_state.opacity
                 = ApplyMask(BatchMean(Sample("opacity", "vol", last_call.camera, "first")),
                             RaysMask)

\* a first pass over a scene whose primitives were all removed, primitives
\* enabled
C21_Witness ==
    /\ IsPass(last_call)
    /\ last_call.is_first_pass
    /\ primitives.objects = <<>>
    /\ primitives.enabled
    /\ last_call.traces[1].path = "vol"

IsAccumulatingStep == IsPass(last_call') /\ ~last_call'.is_first_pass

Fx(traces) == [i \in 1 .. Len(traces) |-> traces[i].fx]

\* C22: in an accumulating pass depth of field is the only effect tried while
\* it is enabled: it accumulates iff it has budget left, and with its budget
\* used up the pass accumulates nothing, whatever budget antialiasing has;
\* antialiasing accumulates iff depth of field is disabled, antialiasing is
\* enabled and its counter, advanced by the ray generation, is within target.
C22_EffectPriority ==
    [][IsAccumulatingStep =>
          /\ use_depth_of_field =>
                Fx(last_call'.traces)
                = IF HasMoreToAccumulate(depth_of_field) THEN <<"dof">> ELSE <<>>
          /\ ~use_depth_of_field =>
                Fx(last_call'.traces)
                = IF use_spp /\ HasMoreToAccumulate(spp') THEN <<"spp">> ELSE <<>>
          /\ last_call'.traces = <<>> =>
                /\ last_state'.rgb_buffer = ApplyMask(last_state.rgb_buffer, RaysMask)
                /\ last_state'.opacity = ApplyMask(last_state.opacity, RaysMask)]_vars

\* an accumulating pass with depth of field on and used up, antialiasing on
\* with budget left, that traced nothing
C22_Witness ==
    /\ IsPass(last_call) /\ ~last_call.is_first_pass
    /\ use_depth_of_field /\ use_spp
    /\ ~HasMoreToAccumulate(depth_of_field)
    /\ HasMoreToAccumulate(spp)
    /\ last_call.traces = <<>>

\* C22 as stated: depth of field accumulates if enabled with budget left,
\* otherwise antialiasing accumulates if enabled with budget left, also when
\* depth of field is enabled with its budget used up
C22_FallsThroughToAntialiasing ==
    [][IsAccumulatingStep =>
          LET dof == use_depth_of_field /\ HasMoreToAccumulate(depth_of_field)
          IN  /\ dof => Fx(last_call'.traces) = <<"dof">>
              /\ (~dof /\ use_spp /\ HasMoreToAccumulate(spp')) =>
                    Fx(last_call'.traces) = <<"spp">>]_vars

HybridTracesOf(call) ==
    {i \in 1 .. Len(call.traces) : call.traces[i].path = "hyb"}

\* C23: the frame counter changes only inside a hybrid trace call: a pass on
\* the volumetric-only path, a pass that traces nothing and every registry
\* operation leave it as it was, and a pass with a hybrid trace makes exactly
\* one such call, which changes the counter once (advance or wrap to 0).
C23_FrameIdOnlyInHybridTrace ==
    [][IF HybridTracesOf(last_call') # {}
       THEN /\ Cardinality(HybridTracesOf(last_call')) = 1
            /\ frame_id' = AdvanceFrameId(frame_id, spp.batch_size)
            /\ frame_id' # frame_id
       ELSE frame_id' = frame_id]_vars

\* a pass that took the volumetric-only path after hybrid traces had advanced
\* the counter
C23_Witness ==
    /\ IsPass(last_call)
    /\ Len(last_call.traces) = 1
    /\ last_call.traces[1].path = "vol"
    /\ frame_id > 0

(***************************************************************************)
(* The accumulation arithmetic on one pixel, in exact rational numbers.    *)
(* A rational is a reduced pair <<numerator, denominator>>; a color value  *)
(* is a rational or the square root of a rational that has no rational     *)
(* root; an opacity buffer keeps the leading batch dimension of the tensor *)
(* as a sequence.                                                          *)
(***************************************************************************)
MaxAccum == 2

RECURSIVE GCD(_, _)
GCD(a, b) == IF b = 0 THEN a ELSE GCD(b, a % b)

Frac(p, q) == LET g == GCD(p, q) IN <<p \div g, q \div g>>

RAdd(x, y) == Frac(x[1] * y[2] + y[1] * x[2], x[2] * y[2])

RMul(x, y) == Frac(x[1] * y[1], x[2] * y[2])

RScale(x, n) == Frac(x[1] * n, x[2])

RDiv(x, n) == Frac(x[1], x[2] * n)

RECURSIVE RSum(_)
RSum(xs) == IF xs = <<>> THEN <<0, 1>> ELSE RAdd(Head(xs), RSum(Tail(xs)))

IsSquare(n) == \E r \in 0 .. n : r * r = n

Sqrt(n) == CHOOSE r \in 0 .. n : r * r = n

Real(q) == [root |-> FALSE, q |-> q]

\* self.gamma_correction: 1 is linear accumulation
Gammas == {1, 2}

\* torch.pow(x, gamma)
pow(x, gamma) ==
    IF gamma = 1 THEN x
    ELSE IF x.root THEN Real(x.q)
    ELSE Real(RMul(x.q, x.q))

\* torch.pow(x, 1.0 / gamma), x rational
pow_inv(x, gamma) ==
    IF gamma = 1 THEN x
    ELSE IF IsSquare(x.q[1]) /\ IsSquare(x.q[2]) THEN Real(<<Sqrt(x.q[1]), Sqrt(x.q[2])>>)
    ELSE [root |-> TRUE, q |-> x.q]

\* variant: the previous buffer counts as one sample, whatever it holds
accumulate_value_unweighted(prev_frames, new_frame, num_frames_accumulated, gamma, batch_size) ==
    LET prev == pow(prev_frames, gamma).q
    IN  pow_inv(Real(RDiv(RAdd(prev, new_frame), 1 + batch_size)), gamma)

\* _accumulate_to_buffer on one pixel value
accumulate_value(prev_frames, new_frame, num_frames_accumulated, gamma, batch_size) ==
    LET prev == pow(prev_frames, gamma).q
        buffer == RDiv(RAdd(RScale(prev, num_frames_accumulated), new_frame),
                       num_frames_accumulated + batch_size)
    IN  pow_inv(Real(buffer), gamma)

\* tensor broadcasting along the batch dimension
Broadcast(x, len) == IF Len(x) = len THEN x ELSE [j \in 1 .. len |-> x[1]]

\* (rb['opacity'] * i + pred_opacity) / (i + batch_size) on one pixel
accumulate_opacity_value(opacity, pred_opacity, i, batch_size) ==
    LET len == IF Len(opacity) >= Len(pred_opacity) THEN Len(opacity) ELSE Len(pred_opacity)
    IN  [j \in 1 .. len |->
            RDiv(RAdd(RScale(Broadcast(opacity, len)[j], i), Broadcast(pred_opacity, len)[j]),
                 i + batch_size)]

\* what a trace returns for the pixel: a color and an opacity
PixelSamples ==
    { [rgb |-> <<0, 1>>, opacity |-> <<1, 2>>],
      [rgb |-> <<1, 2>>, opacity |-> <<1, 1>>],
      [rgb |-> <<1, 1>>, opacity |-> <<1, 1>>] }

Field(batch, f) == [j \in 1 .. Len(batch) |-> batch[j][f]]

AccCall(op, gamma, samples, prev, batch, n, batch_size, passes) ==
    [op |-> op, gamma |-> gamma, samples |-> samples, prev |-> prev, batch |-> batch,
     n |-> n, batch_size |-> batch_size, passes |-> passes]

\* the buffers after a first pass that traced the sample a, one effect
\* selected, its counter at one sample held
AccInit ==
    /\ frame_id = 0
    /\ use_depth_of_field \in BOOLEAN
    /\ use_spp = ~use_depth_of_field
    /\ use_optix_denoiser = FALSE
    /\ camera_type = "Pinhole"
    /\ \E b \in 1 .. MaxBatch :
          /\ use_depth_of_field => b = 1
          /\ spp = [spp |-> MaxAccum * MaxBatch, batch_size |-> b,
                    spp_accumulated_for_frame |-> 1]
    /\ depth_of_field = [spp |-> MaxAccum, spp_accumulated_for_frame |-> 1]
    /\ is_materials_dirty = FALSE
    /\ primitives = [enabled |-> FALSE, objects |-> <<>>, instance_counter |-> <<>>,
                     registered_materials |-> register_default_materials,
                     stacked_fields |-> NoStack, dirty |-> TRUE]
    /\ tracer = build_mesh_acc(<<>>, TRUE)
    /\ render_pc = [pc |-> "idle", camera |-> NoCamera, n |-> 0]
    /\ uploads = 0
    /\ \E a \in PixelSamples, gamma \in Gammas :
          /\ last_state = [camera |-> StaticView,
                           rgb |-> pow_inv(Real(a.rgb), gamma),
                           rgb_buffer |-> pow_inv(Real(a.rgb), gamma),
                           opacity |-> <<a.opacity>>]
          /\ last_call = AccCall("first", gamma, <<a>>, last_state, <<>>, 0, 1, 0)

\* the arithmetic of _render_depth_of_field_buffer, lines 512-514
AccumulateDof(sample) ==
    /\ use_depth_of_field
    /\ last_call.passes < MaxAccum
    /\ LET i == depth_of_field.spp_accumulated_for_frame
           rgb == accumulate_value(last_state.rgb_buffer, sample.rgb, i, last_call.gamma, 1)
       IN  /\ last_state' = [last_state EXCEPT
                               !.rgb = rgb,
                               !.rgb_buffer = rgb,
                               !.opacity = accumulate_opacity_value(@, <<sample.opacity>>, i, 1)]
           /\ depth_of_field' = [depth_of_field EXCEPT !.spp_accumulated_for_frame = i + 1]
           /\ last_call' = AccCall("accumulate", last_call.gamma,
                                   Append(last_call.samples, sample), last_state,
                                   <<sample>>, i, 1, last_call.passes + 1)
    /\ UNCHANGED <<frame_id, use_depth_of_field, use_spp, use_optix_denoiser, camera_type,
                   spp, is_materials_dirty, primitives, tracer, render_pc, uploads>>

\* the arithmetic of _render_spp_buffer, lines 524-528
AccumulateSpp(batch) ==
    /\ use_spp
    /\ last_call.passes < MaxAccum
    /\ LET i == spp.spp_accumulated_for_frame
           batch_rgb == RSum(Field(batch, "rgb"))
           rgb == accumulate_value(last_state.rgb_buffer, batch_rgb, i, last_call.gamma,
                                   spp.batch_size)
       IN  /\ last_state' = [last_state EXCEPT
                               !.rgb = rgb,
                               !.rgb_buffer = rgb,
                               !.opacity = accumulate_opacity_value(
                                               @, Field(batch, "opacity"), i, spp.batch_size)]
           /\ spp' = [spp EXCEPT !.spp_accumulated_for_frame = i + spp.batch_size]
           /\ last_call' = AccCall("accumulate", last_call.gamma,
                                   last_call.samples \o batch, last_state,
                                   batch, i, spp.batch_size, last_call.passes + 1)
    /\ UNCHANGED <<frame_id, use_depth_of_field, use_spp, use_optix_denoiser, camera_type,
                   depth_of_field, is_materials_dirty, primitives, tracer, render_pc, uploads>>

AccNext ==
    \/ \E sample \in PixelSamples : AccumulateDof(sample)
    \/ \E batch \in [1 .. spp.batch_size -> PixelSamples] : AccumulateSpp(batch)

AccSpec == AccInit /\ [][AccNext]_vars

RECURSIVE FoldSingles(_, _, _)
FoldSingles(buffer, rest, n) ==
    IF rest = <<>> THEN buffer
    ELSE FoldSingles(accumulate_value(buffer, Head(rest), n, 1, 1), Tail(rest), n + 1)

IsAccumulated == last_call.op = "accumulate"

\* C24: with gamma = 1 the color law is an exact running mean: accumulating
\* a contribution N of b samples onto a buffer P holding n samples gives
\* (P*n + N)/(n + b); one sample a plus one sample b gives (a + b)/2; the
\* buffer equals the arithmetic mean of all samples accumulated so far, and
\* single-sample accumulations with prior counts 1..k give the same buffer
\* in every order of the samples.
C24_ExactRunningMean ==
    (IsAccumulated /\ last_call.gamma = 1) =>
        LET P == last_call.prev.rgb_buffer.q
            N == RSum(Field(last_call.batch, "rgb"))
            n == last_call.n
            b == last_call.batch_size
            all == Field(last_call.samples, "rgb")
            buffer == last_state.rgb_buffer
        IN  /\ ~buffer.root
            /\ buffer.q = RDiv(RAdd(RScale(P, n), N), n + b)
            /\ (n = 1 /\ b = 1) => buffer.q = RDiv(RAdd(all[1], all[2]), 2)
            /\ n + b = Len(all)
            /\ buffer.q = RDiv(RSum(all), Len(all))
            /\ b = 1 =>
                  \A p \in Permutations(1 .. Len(all)) :
                      FoldSingles(Real(all[p[1]]),
                                  [j \in 1 .. Len(all) - 1 |-> all[p[j + 1]]], 1) = buffer

\* two single-sample accumulations of unequal samples with gamma = 1
C24_Witness ==
    /\ IsAccumulated /\ last_call.gamma = 1
    /\ last_call.batch_size = 1 /\ last_call.n = 2
    /\ Len(last_call.samples) = 3
    /\ last_call.samples[1].rgb # last_call.samples[2].rgb
    /\ last_call.samples[2].rgb # last_call.samples[3].rgb

\* C25: opacity accumulates as a plain running mean with the weights of
\* color: a depth-of-field pass with prior count n gives (O*n + o)/(n + 1),
\* an antialiasing pass with batch size b gives (O*n + the sum of the
\* batch's b opacity samples)/(n + b), one opacity value per pixel; if every
\* sample has the same opacity c the accumulated opacity stays c.
C25_OpacityRunningMean ==
    IsAccumulated =>
        LET O == last_call.prev.opacity
            o == Field(last_call.batch, "opacity")
            n == last_call.n
            b == last_call.batch_size
            all == Field(last_call.samples, "opacity")
        IN  /\ Len(last_state.opacity) = 1
            /\ last_state.opacity[1] = RDiv(RAdd(RScale(O[1], n), RSum(o)), n + b)
            /\ (\A j \in 1 .. Len(all) : all[j] = all[1]) => last_state.opacity[1] = all[1]

\* C26: after every first pass both accumulation counters are at their reset
\* value and the cache holds only the new single-sample result: the noisy
\* color and the opacity are the gamma-corrected mean of the one new trace
\* from the pass's camera, and the displayed color is that buffer, denoised
\* when the denoiser is on; nothing of the earlier accumulation survives.
C26_FirstPassRestarts ==
    (IsPass(last_call) /\ last_call.is_first_pass) =>
        /\ spp.spp_accumulated_for_frame = ResetAccumulation
        /\ depth_of_field.spp_accumulated_for_frame = ResetAccumulation
        /\ Len(last_call.traces) = 1
        /\ LET path == last_call.traces[1].path
               noisy == GammaMean(Sample("rgb", path, last_call.camera, "first"))
           IN  /\ last_call.traces[1].fx = "first"
               /\ last_state.camera = last_call.camera
               /\ last_state.rgb_buffer = ApplyMask(noisy, RaysMask)
               /\ last_state.opacity
                  = ApplyMask(BatchMean(Sample("opacity", path, last_call.camera, "first")),
                              RaysMask)
               /\ last_state.rgb
                  = ApplyMask(IF use_optix_denoiser THEN Denoise(noisy) ELSE noisy, RaysMask)

\* a first pass issued after at least one earlier pass, both effects enabled
C26_Witness ==
    /\ IsPass(last_call) /\ last_call.is_first_pass
    /\ use_depth_of_field /\ use_spp
    /\ spp.batch_size = 1
    /\ frame_id = 2

(***************************************************************************)
(* The scale of a new primitive: Primitives.set_mesh_scale_to_scene, in    *)
(* rational numbers. A mesh is given by the corners of its bounding box,   *)
(* a transform by its uniform scale factor.                                *)
(***************************************************************************)
\* SCALE_OF_NEW_MESH_TO_SMALL_SCENE = 0.5
SCALE_OF_NEW_MESH_TO_SMALL_SCENE == <<1, 2>>

\* 5.0 in 'self.scene_scale.max() > 5.0'
LARGE_SCENE == <<5, 1>>

RLeq(x, y) == x[1] * y[2] <= y[1] * x[2]

\* tensor.max() over the three axes
VMax(v) == CHOOSE x \in {v[a] : a \in 1 .. 3} : \A a \in 1 .. 3 : RLeq(v[a], x)

\* 1.0 / x
RInv(x) == Frac(x[2], x[1])

\* ObjectTransform(device=device): the identity
ObjectTransform(name) == [id |-> name, value |-> [scale |-> <<1, 1>>]]

\* transform.scale(factor)
transform_scale(transform, factor) ==
    [transform EXCEPT !.value.scale = RMul(@, factor)]

\* variant: a scene of extent exactly 5 counts as large
set_mesh_scale_to_scene_strict(scene_scale, mesh, transform) ==
    LET mesh_scale == [a \in 1 .. 3 |-> <<mesh.hi[a] - mesh.lo[a], 1>>]
        unit == transform_scale(transform, RInv(VMax(mesh_scale)))
        adjusted_scale == [a \in 1 .. 3 |-> RMul(SCALE_OF_NEW_MESH_TO_SMALL_SCENE, scene_scale[a])]
    IN  IF RLeq(LARGE_SCENE, VMax(scene_scale)) THEN unit
        ELSE transform_scale(unit, VMax(adjusted_scale))

\* Primitives.set_mesh_scale_to_scene(mesh, transform), with self.scene_scale
set_mesh_scale_to_scene(scene_scale, mesh, transform) ==
    LET mesh_scale == [a \in 1 .. 3 |-> <<mesh.hi[a] - mesh.lo[a], 1>>]
        unit == transform_scale(transform, RInv(VMax(mesh_scale)))
        adjusted_scale == [a \in 1 .. 3 |-> RMul(SCALE_OF_NEW_MESH_TO_SMALL_SCENE, scene_scale[a])]
    IN  IF ~RLeq(VMax(scene_scale), LARGE_SCENE) THEN unit
        ELSE transform_scale(unit, VMax(adjusted_scale))

\* bounding boxes of the meshes create_geometry may return
Meshes ==
    { [lo |-> <<0, 0, 0>>, hi |-> <<1, 1, 1>>],
      [lo |-> <<-1, -1, 0>>, hi |-> <<1, 1, 0>>],
      [lo |-> <<-1, 0, 0>>, hi |-> <<3, 1, 2>>] }

\* scene extents: the default, a small scene, extent exactly 5, just above 5,
\* a large scene
SceneScales ==
    { << <<1, 1>>, <<1, 1>>, <<1, 1>> >>,
      << <<1, 2>>, <<1, 4>>, <<1, 4>> >>,
      << <<2, 1>>, <<5, 1>>, <<1, 1>> >>,
      << <<11, 2>>, <<1, 1>>, <<3, 1>> >>,
      << <<6, 1>>, <<6, 1>>, <<4, 1>> >> }

ScaleCall(op, geometry_type, primitive_type, name, mesh) ==
    [op |-> op, ok |-> TRUE, geometry_type |-> geometry_type,
     primitive_type |-> primitive_type, name |-> name, mesh |-> mesh]

ScaleInit ==
    /\ frame_id = 0
    /\ use_depth_of_field = FALSE
    /\ use_spp = TRUE
    /\ use_optix_denoiser = TRUE
    /\ camera_type = "Pinhole"
    /\ spp = [spp |-> 1, batch_size |-> 1, spp_accumulated_for_frame |-> ResetAccumulation]
    /\ depth_of_field = [spp |-> 1, spp_accumulated_for_frame |-> ResetAccumulation]
    /\ is_materials_dirty = FALSE
    /\ last_state = [camera |-> NoCamera, rgb |-> NoBuf, rgb_buffer |-> NoBuf, opacity |-> NoBuf]
    /\ \E scene_scale \in SceneScales :
          primitives = [enabled |-> TRUE, objects |-> <<>>,
                        instance_counter |-> [g \in {} |-> 0],
                        registered_materials |-> register_default_materials,
                        stacked_fields |-> NoStack, dirty |-> TRUE,
                        scene_scale |-> scene_scale]
    /\ tracer = build_mesh_acc(NoStack, FALSE)
    /\ render_pc = [pc |-> "idle", camera |-> NoCamera, n |-> 0]
    /\ last_call = ScaleCall("init", "", NONE, <<>>, <<>>)
    /\ uploads = 0

\* add_primitive with the transform of lines 280-281 written out
AddScaledPrimitive(geometry_type, primitive_type, mesh) ==
    /\ render_pc.pc = "idle"
    /\ create_geometry(primitives, geometry_type).ok
    /\ Len(primitives.objects) < MaxObjects
    /\ CounterOf(primitives.instance_counter, geometry_type) < MaxInstance
    /\ LET P == add_primitive(primitives, geometry_type, primitive_type)
           name == <<geometry_type, P.instance_counter[geometry_type]>>
           transform == set_mesh_scale_to_scene(primitives.scene_scale, mesh,
                                                ObjectTransform(name))
       IN  /\ primitives' = [P EXCEPT !.objects[IndexOf(P.objects, name)].transform = transform]
           /\ last_call' = ScaleCall("add_primitive", geometry_type, primitive_type, name, mesh)
    /\ UNCHANGED <<frame_id, use_depth_of_field, use_spp, use_optix_denoiser, camera_type,
                   spp, depth_of_field, is_materials_dirty, last_state, tracer, render_pc,
                   uploads>>

ScaleNext ==
    \/ \E t \in AddTypes, mesh \in Meshes : AddScaledPrimitive("Sphere", t, mesh)
    \/ \E name \in AllNames : RemovePrimitive(name)

ScaleSpec == ScaleInit /\ [][ScaleNext]_vars

\* C27: the uniform scale of a primitive just added is 0.5 * s / m when the
\* scene's largest axis extent s is <= 5 (s = 5 included) and 1 / m when
\* s > 5, m being the largest bounding-box extent of its mesh; it is the
\* same whatever primitives exist and whatever the primitive type is.
C27_ScalingPolicy ==
    last_call.op = "add_primitive" =>
        LET prim == primitives.objects[IndexOf(primitives.objects, last_call.name)]
            mesh == last_call.mesh
            m == VMax([a \in 1 .. 3 |-> <<mesh.hi[a] - mesh.lo[a], 1>>])
            s == VMax(primitives.scene_scale)
        IN  prim.transform.value.scale
            = IF RLeq(s, <<5, 1>>)
              THEN Frac(s[1] * m[2], 2 * s[2] * m[1])
              ELSE Frac(m[2], m[1])

\* a second primitive added to a scene of extent exactly 5, mesh extent 4
C27_Witness ==
    /\ last_call.op = "add_primitive"
    /\ Len(primitives.objects) = 2
    /\ VMax(primitives.scene_scale) = <<5, 1>>
    /\ last_call.mesh.hi[1] - last_call.mesh.lo[1] = 4
    /\ primitives.objects[2].transform.value.scale = <<5, 8>>

\* C28: render_pass(camera, is_first_pass=False) issued before any pass has
\* completed raises an error: it returns no buffer and writes nothing to the
\* last-rendered-state cache, so is_dirty stays true for every camera.
C28_AccumulatingBeforeFirstFails ==
    [][(/\ last_call'.op = "render_pass"
        /\ ~last_call'.is_first_pass
        /\ last_state.rgb_buffer = NoBuf) =>
          /\ ~last_call'.ok
          /\ last_call'.traces = <<>>
          /\ last_state' = last_state
          /\ last_state' = [camera |-> NoCamera, rgb |-> NoBuf, rgb_buffer |-> NoBuf,
                            opacity |-> NoBuf]
          /\ \A view \in Views : is_dirty(view)']_vars

\* a failed accumulating pass on the engine as constructed
C28_Witness ==
    /\ last_call.op = "render_pass" /\ ~last_call.is_first_pass /\ ~last_call.ok
    /\ last_state.rgb_buffer = NoBuf
    /\ ~is_materials_dirty
    /\ \A view \in Views : is_dirty(view)

\* C29: a registry operation that aborts (add_primitive with an unknown
\* geometry kind, remove_primitive or duplicate_primitive with a name that is
\* not in the object mapping) leaves the object mapping, the instance
\* counters, the dirty flag and the merged buffer set as they were, and does
\* not call the accelerator.
C29_FailedOperationChangesNothing ==
    [][(/\ last_call'.op \in {"add_primitive", "remove_primitive", "duplicate_primitive"}
        /\ ~last_call'.ok) =>
          /\ primitives'.objects = primitives.objects
          /\ primitives'.instance_counter = primitives.instance_counter
          /\ primitives'.dirty = primitives.dirty
          /\ primitives'.stacked_fields = primitives.stacked_fields
          /\ tracer' = tracer
          /\ last_call'.builds = 0]_vars

\* the camera views of the traced samples that carry weight in a pixel term
RECURSIVE ViewsOf(_)
ViewsOf(t) ==
    CASE t.k = "trace" -> {t.view}
      [] t.k \in {"gamma_mean", "batch_mean", "batch_sum"} -> ViewsOf(t.of)
      [] t.k \in {"acc", "mean"} ->
            (IF t.n = 0 THEN {} ELSE ViewsOf(t.prev)) \cup ViewsOf(t.new)
      [] t.k = "denoise" -> ViewsOf(t.img[1]) \cup ViewsOf(t.img[2])
      [] OTHER -> {}

\* C30: every sample blended into the cached noisy color and opacity buffers
\* was rendered from the camera view stored in the cache: no accumulating
\* pass blends another view into the buffer and records that view as the
\* cached camera.
C30_CacheViewConsistent ==
    \A px \in 1 .. 2 :
        ViewsOf(last_state.rgb_buffer[px]) \cup ViewsOf(last_state.opacity[px])
        \subseteq {last_state.camera}
====
